---------------------------- MODULE Spec2Model ----------------------------
(***************************************************************************)
(* leafwing-2d: the Rotation / Direction dual representation of a 2-D      *)
(* heading (src/src/orientation.rs) and the two systems that keep them and *)
(* the Transform synchronised (src/src/plugin.rs).                         *)
(*                                                                         *)
(* Numbers.  Rotation is integer arithmetic on u16 and is modelled         *)
(* exactly.  f32 values are modelled as fixed-point integers in units of   *)
(* 1/ONE: the arithmetic has a finite resolution and truncates, as f32     *)
(* does, but at a coarser grain.  sin, cos, sqrt and atan2 are computed    *)
(* (series, bisection), never tabulated and never replaced by the          *)
(* identity.                                                               *)
(***************************************************************************)
EXTENDS Integers, Naturals, Sequences, FiniteSets, TLC

(***************************************************************************)
(* Program constants                                                       *)
(***************************************************************************)
\* Rotation::FULL_CIRCLE, tenths of a degree in a full circle
FULL_CIRCLE == 3600
\* deci_degrees is a u16: arithmetic on it is modulo 2^16 (release build)
U16_MODULUS == 65536
\* the f32 value 1.0 in fixed-point units
ONE == 10000
\* std::f32::consts::TAU in fixed-point units
TAU == 62832
\* f32::EPSILON, the resolution of the representation at 1.0
EPSILON == 1

Abs(x) == IF x < 0 THEN -x ELSE x

\* u16 arithmetic: the value kept by a release build (two's complement wrap)
WrapU16(x) == x % U16_MODULUS
\* ... and whether a debug build panics on it ("attempt to add/subtract with overflow")
OverflowsU16(x) == x < 0 \/ x >= U16_MODULUS

(***************************************************************************)
(* Rotation: integer operations, src/src/orientation.rs mod rotation       *)
(***************************************************************************)
Rotation_new(deci_degrees) == deci_degrees % FULL_CIRCLE

\* the distance along the shorter arc
Rotation_distance_ShortestArc(self, other) ==
    LET d == IF self >= other THEN self - other ELSE other - self
    IN IF d > FULL_CIRCLE \div 2 THEN FULL_CIRCLE - d ELSE d

Rotation_distance(self, other) ==
    IF self >= other THEN self - other ELSE other - self

\* rotation_direction with >= for >: the half circle goes clockwise
rotation_direction_AtHalf(self, target) ==
    IF Rotation_distance(self, target) >= FULL_CIRCLE \div 2
    THEN "Clockwise"
    ELSE "CounterClockwise"

rotation_direction(self, target) ==
    IF Rotation_distance(self, target) > FULL_CIRCLE \div 2
    THEN "Clockwise"
    ELSE "CounterClockwise"

Rotation_add(self, rhs) == Rotation_new(WrapU16(self + rhs))

Rotation_sub(self, rhs) ==
    IF self >= rhs
    THEN Rotation_new(WrapU16(self - rhs))
    ELSE Rotation_new(WrapU16(WrapU16(self + FULL_CIRCLE) - rhs))

Rotation_add_assign(self, rhs) == WrapU16(self + rhs) % FULL_CIRCLE

Rotation_sub_assign(self, rhs) == WrapU16(self - rhs) % FULL_CIRCLE

Rotation_neg(self) == WrapU16(FULL_CIRCLE - self)

\* rotate_towards with < for <=: a target exactly max_rotation away is not taken
rotate_towards_Strict(self, target, max_rotation) ==
    IF Rotation_distance(self, target) < max_rotation
    THEN target
    ELSE IF rotation_direction(self, target) = "Clockwise"
         THEN Rotation_add(self, max_rotation)
         ELSE Rotation_sub(self, max_rotation)

rotate_towards(self, target, max_rotation) ==
    IF Rotation_distance(self, target) <= max_rotation
    THEN target
    ELSE IF rotation_direction(self, target) = "Clockwise"
         THEN Rotation_add(self, max_rotation)
         ELSE Rotation_sub(self, max_rotation)

\* The named constants NORTH .. NORTHWEST
RotationConstants == {0, 900, 1800, 2700, 450, 1350, 2250, 3150}

(***************************************************************************)
(* f32 helpers in fixed point                                              *)
(***************************************************************************)
\* a * b and a / b on fixed-point operands (non-negative a, b)
FMul(a, b) == (a * b) \div ONE

\* floor of the square root, by bisection on [lo, hi]
RECURSIVE SqrtBisect(_, _, _)
SqrtBisect(n, lo, hi) ==
    IF lo >= hi THEN lo
    ELSE LET mid == (lo + hi + 1) \div 2
         IN IF mid * mid <= n THEN SqrtBisect(n, mid, hi)
                              ELSE SqrtBisect(n, lo, mid - 1)

\* f32::sqrt of a squared length (argument in units of 1/ONE^2, result in 1/ONE)
Sqrt(n) == SqrtBisect(n, 0, 46340)

\* sin and cos on the first quadrant [0, TAU/4], Taylor series in Horner form
SinQ(x) ==
    LET t == FMul(x, x)
        h4 == ONE - FMul(t, ONE) \div 72
        h3 == ONE - FMul(t, h4) \div 42
        h2 == ONE - FMul(t, h3) \div 20
        h1 == ONE - FMul(t, h2) \div 6
    IN FMul(x, h1)

CosQ(x) ==
    LET t == FMul(x, x)
        h5 == ONE - FMul(t, ONE) \div 90
        h4 == ONE - FMul(t, h5) \div 56
        h3 == ONE - FMul(t, h4) \div 30
        h2 == ONE - FMul(t, h3) \div 12
    IN ONE - FMul(t, h2) \div 2

\* f32::sin and f32::cos for an angle in [0, TAU], reduced to the first quadrant
Sin(x) ==
    LET q == TAU \div 4
        h == TAU \div 2
    IN IF x <= q THEN SinQ(x)
       ELSE IF x <= h THEN SinQ(h - x)
       ELSE IF x <= h + q THEN -SinQ(x - h)
       ELSE -SinQ(TAU - x)

Cos(x) ==
    LET q == TAU \div 4
        h == TAU \div 2
    IN IF x <= q THEN CosQ(x)
       ELSE IF x <= h THEN -CosQ(h - x)
       ELSE IF x <= h + q THEN -CosQ(x - h)
       ELSE CosQ(TAU - x)

\* the angle in [0, TAU/4] of a first-quadrant vector (ax, ay), by bisection:
\* the largest t with sin(t) * ax <= cos(t) * ay
RECURSIVE AtanBisect(_, _, _, _)
AtanBisect(ay, ax, lo, hi) ==
    IF lo >= hi THEN lo
    ELSE LET mid == (lo + hi + 1) \div 2
         IN IF SinQ(mid) * ax <= CosQ(mid) * ay
            THEN AtanBisect(ay, ax, mid, hi)
            ELSE AtanBisect(ay, ax, lo, mid - 1)

\* f32::atan2(y, x): radians in (-TAU/2, TAU/2], counter-clockwise from the +x axis
Atan2(y, x) ==
    LET t == AtanBisect(Abs(y), Abs(x), 0, TAU \div 4)
        h == TAU \div 2
    IN IF x >= 0 /\ y >= 0 THEN t
       ELSE IF x < 0 /\ y >= 0 THEN h - t
       ELSE IF x < 0 /\ y < 0 THEN t - h
       ELSE -t

\* f32::rem_euclid: the non-negative remainder
RemEuclid(x, m) == x % m

\* truncating division (toward zero), as f32 -> integer casts and f32 division of
\* a signed operand behave in this fixed-point model
DivTrunc(a, b) == IF a >= 0 THEN a \div b ELSE -((-a) \div b)

(***************************************************************************)
(* Results of fallible conversions                                         *)
(***************************************************************************)
Ok(v) == <<"Ok", v>>
Err == <<"Err", "NearlySingularConversion">>
IsOk(r) == r[1] = "Ok"
Unwrap(r) == r[2]

(***************************************************************************)
(* Rotation: conversion methods, src/src/orientation.rs mod rotation       *)
(***************************************************************************)
\* self.deci_degrees as f32 * TAU / 3600.
into_radians(self) == (self * TAU) \div 3600

\* Vec2::new(radians.sin(), radians.cos())
into_xy(self) ==
    LET radians == into_radians(self)
    IN <<Sin(radians), Cos(radians)>>

\* (radians.rem_euclid(TAU) * 3600. / TAU) as u16
from_radians(radians) ==
    LET normalized_radians == RemEuclid(radians, TAU)
    IN (normalized_radians * 3600) \div TAU

\* Vec2::length_squared, in units of 1/ONE^2
length_squared(xy) == xy[1] * xy[1] + xy[2] * xy[2]

\* from_xy without the length check: whatever atan2 makes of the vector is Ok
from_xy_Unchecked(xy) == Ok(from_radians(Atan2(xy[2], xy[1])))

\* atan2(xy.y, xy.x), or the error on a (nearly) zero vector
from_xy(xy) ==
    IF length_squared(xy) < EPSILON * EPSILON
    THEN Err
    ELSE Ok(from_radians(Atan2(xy[2], xy[1])))

(***************************************************************************)
(* Direction, src/src/orientation.rs mod direction                         *)
(***************************************************************************)
\* Vec2::normalize_or_zero: self * length_recip() when that is finite and positive
normalize_or_zero(v) ==
    LET len == Sqrt(length_squared(v))
    IN IF len > 0
       THEN <<DivTrunc(v[1] * ONE, len), DivTrunc(v[2] * ONE, len)>>
       ELSE <<0, 0>>

Direction_new(vec2) == normalize_or_zero(vec2)

\* SQRT_2 / 2.0
HALF_SQRT_2 == Sqrt(2 * ONE * ONE) \div 2

Direction_NEUTRAL == <<0, 0>>
Direction_NORTH == <<0, ONE>>
Direction_EAST == <<ONE, 0>>
Direction_SOUTH == <<0, -ONE>>
Direction_WEST == <<-ONE, 0>>
Direction_NORTHEAST == <<HALF_SQRT_2, HALF_SQRT_2>>
Direction_SOUTHEAST == <<HALF_SQRT_2, -HALF_SQRT_2>>
Direction_SOUTHWEST == <<-HALF_SQRT_2, -HALF_SQRT_2>>
Direction_NORTHWEST == <<-HALF_SQRT_2, HALF_SQRT_2>>

(***************************************************************************)
(* Conversions, src/src/orientation.rs mod conversions                     *)
(***************************************************************************)
\* impl From<Rotation> for Direction
Direction_from_Rotation(rotation) == Direction_new(into_xy(rotation))

\* impl TryFrom<Direction> for Rotation
Rotation_try_from_Direction(direction) == from_xy(direction)

\* Direction::distance: each `?` returns the conversion's error
Direction_distance(self, other) ==
    LET self_rotation == Rotation_try_from_Direction(self)
        other_rotation == Rotation_try_from_Direction(other)
    IN IF ~IsOk(self_rotation) THEN Err
       ELSE IF ~IsOk(other_rotation) THEN Err
       ELSE Ok(Rotation_distance(Unwrap(self_rotation), Unwrap(other_rotation)))

\* Quat::from_rotation_z(angle): (0, 0, sin(angle / 2), cos(angle / 2))
from_rotation_z(angle) ==
    <<0, 0, Sin(angle \div 2), Cos(angle \div 2)>>

Quat_IDENTITY == <<0, 0, 0, ONE>>

\* impl From<Rotation> for Quat
Quat_from_Rotation(rotation) == from_rotation_z(into_radians(rotation))

\* impl From<Quat> for Direction: Direction::new(quaternion.xyz().truncate())
Direction_from_Quat(quaternion) ==
    Direction_new(<<quaternion[1], quaternion[2]>>)

\* impl TryFrom<Quat> for Rotation
Rotation_try_from_Quat(quaternion) ==
    Rotation_try_from_Direction(Direction_from_Quat(quaternion))

\* impl TryFrom<Direction> for Quat
Quat_try_from_Direction(direction) ==
    LET maybe_rotation == Rotation_try_from_Direction(direction)
    IN IF IsOk(maybe_rotation)
       THEN Ok(Quat_from_Rotation(Unwrap(maybe_rotation)))
       ELSE Err

(***************************************************************************)
(* The two systems, src/src/plugin.rs                                      *)
(*                                                                         *)
(* An entity is a record of its components' values:                        *)
(*   rotation (Rotation), direction (Direction), quat (Transform.rotation),*)
(*   translation (Transform.translation, <<x, y, z>>), position (<<x, y>>).*)
(* `has` is the set of the optional components it holds (Transform is      *)
(* always there: both queries ask for it or do not need it).               *)
(*                                                                         *)
(* Change detection.  Mut<T>::is_changed() holds when the component was    *)
(* written after the asking system last ran: a write stamps the component  *)
(* with the writing system's change tick, which is newer than every        *)
(* system's last_change_tick, the writer's own included, until the writer  *)
(* finishes and its last_change_tick becomes that tick.  `chg` is the set  *)
(* of components for which is_changed() holds for the system that runs.    *)
(* Reading through Deref (comparisons, copies) stamps nothing; assigning   *)
(* through DerefMut does.                                                  *)
(***************************************************************************)
Components == {"Rotation", "Direction", "Position", "Transform"}
Optional == {"Rotation", "Direction", "Position"}

\* Position<C> with C = f32, as the tests instantiate it: position.x.clone().into()
Coordinate_into_f32(c) == c
\* transform.translation.x.into()
Coordinate_from_f32(x) == x

\* sync_direction_and_rotation with the two branches in the other order: a changed
\* Direction is looked at first
sync_direction_and_rotation_DirectionFirst(e, chg) ==
    IF "Direction" \in chg
    THEN LET new_rotation == Rotation_try_from_Direction(e.direction)
         IN IF IsOk(new_rotation) /\ e.rotation # Unwrap(new_rotation)
            THEN [ent |-> [e EXCEPT !.rotation = Unwrap(new_rotation)],
                  written |-> {"Rotation"}]
            ELSE [ent |-> e, written |-> {}]
    ELSE IF "Rotation" \in chg
    THEN LET new_direction == Direction_from_Rotation(e.rotation)
         IN IF e.direction # new_direction
            THEN [ent |-> [e EXCEPT !.direction = new_direction],
                  written |-> {"Direction"}]
            ELSE [ent |-> e, written |-> {}]
    ELSE [ent |-> e, written |-> {}]

\* sync_direction_and_rotation with unwrap_or_default() in place of `if let Ok`:
\* a failed conversion stores Rotation::default()
sync_direction_and_rotation_DefaultOnErr(e, chg) ==
    IF "Rotation" \in chg
    THEN LET new_direction == Direction_from_Rotation(e.rotation)
         IN IF e.direction # new_direction
            THEN [ent |-> [e EXCEPT !.direction = new_direction],
                  written |-> {"Direction"}]
            ELSE [ent |-> e, written |-> {}]
    ELSE IF "Direction" \in chg
    THEN LET converted == Rotation_try_from_Direction(e.direction)
             new_rotation == IF IsOk(converted) THEN Unwrap(converted) ELSE 0
         IN IF e.rotation # new_rotation
            THEN [ent |-> [e EXCEPT !.rotation = new_rotation],
                  written |-> {"Rotation"}]
            ELSE [ent |-> e, written |-> {}]
    ELSE [ent |-> e, written |-> {}]

\* One iteration of the loop of sync_direction_and_rotation: the entity after it and
\* the components it assigned.
sync_direction_and_rotation(e, chg) ==
    IF "Rotation" \in chg
    THEN LET new_direction == Direction_from_Rotation(e.rotation)
         IN IF e.direction # new_direction
            THEN [ent |-> [e EXCEPT !.direction = new_direction],
                  written |-> {"Direction"}]
            ELSE [ent |-> e, written |-> {}]
    ELSE IF "Direction" \in chg
    THEN LET new_rotation == Rotation_try_from_Direction(e.direction)
         IN IF IsOk(new_rotation) /\ e.rotation # Unwrap(new_rotation)
            THEN [ent |-> [e EXCEPT !.rotation = Unwrap(new_rotation)],
                  written |-> {"Rotation"}]
            ELSE [ent |-> e, written |-> {}]
    ELSE [ent |-> e, written |-> {}]

\* The three blocks of one iteration of the loop of sync_transform_with_2d.  Each
\* takes and returns [ent, chg, written]: a block's assignments are seen by the
\* is_changed() calls of the blocks after it.

\* "Synchronize Rotation with Transform"
SyncRotationWithTransform(st) ==
    LET e == st.ent
    IN IF "Rotation" \in st.chg
       THEN LET new_quat == Quat_from_Rotation(e.rotation)
            IN IF e.quat # new_quat
               THEN [ent |-> [e EXCEPT !.quat = new_quat],
                     chg |-> st.chg \cup {"Transform"},
                     written |-> st.written \cup {"Transform.rotation"}]
               ELSE st
       ELSE IF "Transform" \in st.chg
       THEN LET new_rotation == Rotation_try_from_Quat(e.quat)
            IN IF IsOk(new_rotation) /\ e.rotation # Unwrap(new_rotation)
               THEN [ent |-> [e EXCEPT !.rotation = Unwrap(new_rotation)],
                     chg |-> st.chg \cup {"Rotation"},
                     written |-> st.written \cup {"Rotation"}]
               ELSE st
       ELSE st

\* "Synchronize Direction with Transform"
SyncDirectionWithTransform(st) ==
    LET e == st.ent
    IN IF "Direction" \in st.chg
       THEN LET new_quat == Quat_try_from_Direction(e.direction)
            IN IF IsOk(new_quat) /\ e.quat # Unwrap(new_quat)
               THEN [ent |-> [e EXCEPT !.quat = Unwrap(new_quat)],
                     chg |-> st.chg \cup {"Transform"},
                     written |-> st.written \cup {"Transform.rotation"}]
               ELSE st
       ELSE IF "Transform" \in st.chg
       THEN IF e.direction # Direction_from_Quat(e.quat)
            THEN [ent |-> [e EXCEPT !.direction = Direction_from_Quat(e.quat)],
                  chg |-> st.chg \cup {"Direction"},
                  written |-> st.written \cup {"Direction"}]
            ELSE st
       ELSE st

\* the Position block with the translation rebuilt as Vec3::new(x, y, 0.0)
SyncPositionWithTransform_ZeroZ(st) ==
    LET e == st.ent
    IN IF "Position" \in st.chg
       THEN LET new_x == Coordinate_into_f32(e.position[1])
                new_y == Coordinate_into_f32(e.position[2])
            IN IF e.translation # <<new_x, new_y, 0>>
               THEN [ent |-> [e EXCEPT !.translation = <<new_x, new_y, 0>>],
                     chg |-> st.chg \cup {"Transform"},
                     written |-> st.written \cup {"Transform.translation"}]
               ELSE st
       ELSE IF "Transform" \in st.chg
       THEN LET new_x == Coordinate_from_f32(e.translation[1])
                new_y == Coordinate_from_f32(e.translation[2])
            IN IF e.position[1] # new_x \/ e.position[2] # new_y
               THEN [ent |-> [e EXCEPT !.position = <<new_x, new_y>>],
                     chg |-> st.chg \cup {"Position"},
                     written |-> st.written \cup {"Position"}]
               ELSE st
       ELSE st

\* "Synchronize Position with Transform"
SyncPositionWithTransform(st) ==
    LET e == st.ent
    IN IF "Position" \in st.chg
       THEN LET new_x == Coordinate_into_f32(e.position[1])
                new_y == Coordinate_into_f32(e.position[2])
                wx == e.translation[1] # new_x
                wy == e.translation[2] # new_y
            IN IF wx \/ wy
               THEN [ent |-> [e EXCEPT !.translation =
                                 <<new_x, new_y, e.translation[3]>>],
                     chg |-> st.chg \cup {"Transform"},
                     written |-> st.written \cup {"Transform.translation"}]
               ELSE st
       ELSE IF "Transform" \in st.chg
       THEN LET new_x == Coordinate_from_f32(e.translation[1])
                new_y == Coordinate_from_f32(e.translation[2])
            IN IF e.position[1] # new_x \/ e.position[2] # new_y
               THEN [ent |-> [e EXCEPT !.position = <<new_x, new_y>>],
                     chg |-> st.chg \cup {"Position"},
                     written |-> st.written \cup {"Position"}]
               ELSE st
       ELSE st

\* One iteration of the loop of sync_transform_with_2d on an entity holding the
\* optional components `has`.
sync_transform_with_2d(e, has, chg) ==
    LET s0 == [ent |-> e, chg |-> chg, written |-> {}]
        s1 == IF "Rotation" \in has THEN SyncRotationWithTransform(s0) ELSE s0
        s2 == IF "Direction" \in has THEN SyncDirectionWithTransform(s1) ELSE s1
        s3 == IF "Position" \in has THEN SyncPositionWithTransform(s2) ELSE s2
    IN [ent |-> s3.ent, written |-> s3.written]

\* Query<(&mut Direction, &mut Rotation)>
MatchesSyncDirectionRotation(has) == {"Direction", "Rotation"} \subseteq has

\* Query<(&mut Transform, Option<..>, ..), Or<(With<Rotation>, With<Position<C>>)>>
MatchesSyncTransform(has) == "Rotation" \in has \/ "Position" \in has

\* TwoDimPlugin::build: the systems of CoreStage::PostUpdate and the labels each
\* runs after
Systems == {"SyncDirectionRotation", "SyncTransform"}
\* the two systems added without .after(): no order between them
After_Unordered(sys) == {}
After(sys) ==
    IF sys = "SyncTransform" THEN {"SyncDirectionRotation"} ELSE {}

\* the components a record of written fields stamps as changed
Stamped(written) ==
    {c \in Components :
        \/ c \in written
        \/ c = "Transform" /\ written \cap {"Transform.rotation",
                                            "Transform.translation"} # {}}

(***************************************************************************)
(* Bounds and inputs of the model                                          *)
(***************************************************************************)
\* update cycles without an outside edit are counted up to here
MaxQuiet == 4

Entities == {"e1", "e2"}

\* the optional components an entity can be spawned with
Archetypes ==
    { {"Rotation", "Direction", "Position"}, {"Rotation", "Direction"},
      {"Rotation"}, {"Rotation", "Position"}, {"Direction", "Position"},
      {"Position"} }

\* values outside code assigns
RotationInputs == {0, 450, 1350}
DirectionInputs == {Direction_NEUTRAL, Direction_NORTH, Direction_NORTHEAST}
\* a quarter turn about z, a half turn about x
QuatInputs == {from_rotation_z(TAU \div 4), <<ONE, 0, 0, 0>>}
TranslationInputs == {<<3 * ONE, ONE, 5 * ONE>>}
PositionInputs == {<<ONE, 2 * ONE>>}

\* operands of the Rotation arithmetic: raw u16 inputs of Rotation::new
RawInputs == {0, 1, 1799, 1800, 1801, 3599, 3600, 3601, 7200, 65535}

(***************************************************************************)
(* State                                                                   *)
(***************************************************************************)
VARIABLES
    acc,        \* a Rotation (its deci_degrees) built by the integer operations
    panicked,   \* a u16 operation overflowed and the (debug) build panicked
    conv,       \* the latest conversion round trip: what went in, what came out
    entities,   \* the entities of the world
    has,        \* has[e]: the optional components e holds
    ent,        \* ent[e]: the values of e's components
    changed,    \* changed[sys][e]: the components of e for which is_changed()
                \* holds when sys asks
    stage,      \* "Update" (outside code runs) or "PostUpdate" (the plugin's stage)
    running,    \* the system that is running, or "none"
    done,       \* the systems that have finished in this PostUpdate
    pending,    \* the entities the running system's loop has not visited yet
    last,       \* last[sys][e]: what sys's iteration on e saw and did in this cycle
    edited,     \* edited[e]: what outside code assigned to e before this cycle
                \* ("unsettled": it did so less than MaxQuiet cycles after the
                \* assignment before)
    quiet       \* quiet[e]: cycles completed since outside code last assigned to e

vars == <<acc, panicked, conv, entities, has, ent, changed, stage, running, done,
          pending, last, edited, quiet>>

pureVars == <<acc, panicked, conv>>
worldVars == <<entities, has, ent, changed, stage, running, done, pending,
               last, edited, quiet>>

\* TwoDimBundle::default(): derived Default of every component
DefaultEntity ==
    [rotation |-> 0, direction |-> Direction_NEUTRAL, quat |-> Quat_IDENTITY,
     translation |-> <<0, 0, 0>>, position |-> <<0, 0>>]

NoRun == [ran |-> FALSE, flags |-> {}, before |-> DefaultEntity, written |-> {}]

Min(a, b) == IF a <= b THEN a ELSE b

(***************************************************************************)
(* Initial states                                                          *)
(***************************************************************************)
\* A world just after spawning `live`: every component was just added, so it is
\* changed for every system.
InitWorld(live, archetypes) ==
    /\ entities = live
    /\ has \in [Entities -> archetypes \cup {{}}]
    /\ \A e \in Entities : (has[e] = {}) <=> (e \notin live)
    /\ ent = [e \in Entities |-> DefaultEntity]
    /\ changed = [sys \in Systems |->
                    [e \in Entities |-> IF e \in live THEN Components ELSE {}]]
    /\ stage = "Update"
    /\ running = "none"
    /\ done = {}
    /\ pending = {}
    /\ last = [sys \in Systems |-> [e \in Entities |-> NoRun]]
    /\ edited = [e \in Entities |-> IF e \in live THEN {"spawn"} ELSE {}]
    /\ quiet = [e \in Entities |-> 0]

NoConversion == [op |-> "none"]

\* no pure operation applied yet: Rotation::default()
InitPure ==
    /\ acc = 0
    /\ panicked = FALSE
    /\ conv = NoConversion

\* the integer operations start from one of the named constants
InitArith ==
    /\ acc \in RotationConstants
    /\ panicked = FALSE
    /\ conv = NoConversion
    /\ InitWorld({"e1"}, {{"Rotation"}})

Init ==
    /\ InitPure
    /\ InitWorld({"e1"}, Archetypes)

(***************************************************************************)
(* Outside code: assignments to components during the Update stage         *)
(***************************************************************************)
Assign(e, component, kind, value) ==
    /\ stage = "Update"
    /\ e \in entities
    /\ ent' = [ent EXCEPT ![e] = value]
    /\ changed' = [sys \in Systems |->
                     [changed[sys] EXCEPT ![e] = @ \cup {component}]]
    /\ edited' = [edited EXCEPT ![e] =
                    @ \cup {kind} \cup (IF quiet[e] < MaxQuiet THEN {"unsettled"}
                                                              ELSE {})]
    /\ quiet' = [quiet EXCEPT ![e] = 0]
    /\ UNCHANGED <<pureVars, entities, has, stage, running, done, pending, last>>

SetRotation(e, r) ==
    /\ "Rotation" \in has[e]
    /\ Assign(e, "Rotation", "Rotation", [ent[e] EXCEPT !.rotation = r])

SetDirection(e, d) ==
    /\ "Direction" \in has[e]
    /\ Assign(e, "Direction",
              IF d = Direction_NEUTRAL THEN "Direction:neutral" ELSE "Direction",
              [ent[e] EXCEPT !.direction = d])

SetTransformRotation(e, q) ==
    Assign(e, "Transform",
           IF q[1] = 0 /\ q[2] = 0 THEN "Transform.rotation:z"
                                   ELSE "Transform.rotation:off-axis",
           [ent[e] EXCEPT !.quat = q])

SetTransformTranslation(e, t) ==
    Assign(e, "Transform", "Transform.translation",
           [ent[e] EXCEPT !.translation = t])

SetPosition(e, p) ==
    /\ "Position" \in has[e]
    /\ Assign(e, "Position", "Position", [ent[e] EXCEPT !.position = p])

(***************************************************************************)
(* The PostUpdate stage                                                    *)
(***************************************************************************)
BeginPostUpdate ==
    /\ stage = "Update"
    /\ stage' = "PostUpdate"
    /\ UNCHANGED <<pureVars, entities, has, ent, changed, running, done, pending,
                   last, edited, quiet>>

\* the entities a system's query yields
QueryOf(sys) ==
    {e \in entities :
        IF sys = "SyncDirectionRotation"
        THEN MatchesSyncDirectionRotation(has[e])
        ELSE MatchesSyncTransform(has[e])}

\* the executor starts a system once the systems it is ordered after have finished;
\* the two systems write the same components, so they never run at the same time
StartSystem(sys) ==
    /\ stage = "PostUpdate"
    /\ running = "none"
    /\ sys \notin done
    /\ After(sys) \subseteq done
    /\ running' = sys
    /\ pending' = QueryOf(sys)
    /\ UNCHANGED <<pureVars, entities, has, ent, changed, stage, done, last,
                   edited, quiet>>

\* one iteration of the running system's loop, on entity e
Iterate(sys, e, result) ==
    /\ running = sys
    /\ e \in pending
    /\ ent' = [ent EXCEPT ![e] = result.ent]
    /\ changed' = [s \in Systems |->
                     [changed[s] EXCEPT ![e] = @ \cup Stamped(result.written)]]
    /\ last' = [last EXCEPT ![sys][e] =
                  [ran |-> TRUE, flags |-> changed[sys][e], before |-> ent[e],
                   written |-> result.written]]
    /\ pending' = pending \ {e}
    /\ UNCHANGED <<pureVars, entities, has, stage, running, done, edited, quiet>>

RunSyncDirectionRotation(e) ==
    Iterate("SyncDirectionRotation", e,
            sync_direction_and_rotation(ent[e], changed["SyncDirectionRotation"][e]))

RunSyncTransform(e) ==
    Iterate("SyncTransform", e,
            sync_transform_with_2d(ent[e], has[e], changed["SyncTransform"][e]))

\* a system whose flags are never reset: what was changed stays changed for it
FinishSystem_KeepsFlags ==
    /\ running # "none"
    /\ pending = {}
    /\ done' = done \cup {running}
    /\ running' = "none"
    /\ UNCHANGED <<pureVars, entities, has, ent, changed, stage, pending, last,
                   edited, quiet>>

\* a system that still sees, in its next run, what it wrote in this one
FinishSystem_SeesOwnWrites ==
    /\ running # "none"
    /\ pending = {}
    /\ done' = done \cup {running}
    /\ changed' = [changed EXCEPT ![running] =
                      [e \in Entities |-> Stamped(last[running][e].written)]]
    /\ running' = "none"
    /\ UNCHANGED <<pureVars, entities, has, ent, stage, pending, last, edited,
                   quiet>>

\* the system returns: its last_change_tick becomes this run's tick, so nothing
\* written up to now is changed for it any more
FinishSystem ==
    /\ running # "none"
    /\ pending = {}
    /\ done' = done \cup {running}
    /\ changed' = [changed EXCEPT ![running] = [e \in Entities |-> {}]]
    /\ running' = "none"
    /\ UNCHANGED <<pureVars, entities, has, ent, stage, pending, last, edited,
                   quiet>>

EndPostUpdate ==
    /\ stage = "PostUpdate"
    /\ running = "none"
    /\ done = Systems
    /\ stage' = "Update"
    /\ done' = {}
    /\ last' = [sys \in Systems |-> [e \in Entities |-> NoRun]]
    /\ edited' = [e \in Entities |-> {}]
    /\ quiet' = [e \in Entities |->
                   IF e \in entities THEN Min(quiet[e] + 1, MaxQuiet) ELSE quiet[e]]
    /\ UNCHANGED <<pureVars, entities, has, ent, changed, running, pending>>

Next ==
    \/ \E e \in Entities, r \in RotationInputs : SetRotation(e, r)
    \/ \E e \in Entities, d \in DirectionInputs : SetDirection(e, d)
    \/ \E e \in Entities, q \in QuatInputs : SetTransformRotation(e, q)
    \/ \E e \in Entities, t \in TranslationInputs : SetTransformTranslation(e, t)
    \/ \E e \in Entities, p \in PositionInputs : SetPosition(e, p)
    \/ BeginPostUpdate
    \/ \E sys \in Systems : StartSystem(sys)
    \/ \E e \in Entities : RunSyncDirectionRotation(e)
    \/ \E e \in Entities : RunSyncTransform(e)
    \/ FinishSystem
    \/ EndPostUpdate

Spec == Init /\ [][Next]_vars

(***************************************************************************)
(* Rotation arithmetic: a value built up by the public integer operations  *)
(***************************************************************************)
\* the operands at hand: the named constants, Rotation::new of a raw input, and
\* the value built so far
Operands == RotationConstants \cup {Rotation_new(raw) : raw \in RawInputs} \cup {acc}

\* an operation whose u16 intermediate `wide` may leave the range: the release
\* build keeps the wrapped result, the debug build panics and keeps the old value
ArithStep(result, wide) ==
    /\ ~panicked
    /\ \/ /\ acc' = result
          /\ UNCHANGED panicked
       \/ /\ OverflowsU16(wide)
          /\ panicked' = TRUE
          /\ UNCHANGED acc
    /\ UNCHANGED <<conv, worldVars>>

ArithNew(raw) == ArithStep(Rotation_new(raw), raw)
ArithConstant(c) == ArithStep(c, c)
ArithAdd(rhs) == ArithStep(Rotation_add(acc, rhs), acc + rhs)
ArithSub(rhs) == ArithStep(Rotation_sub(acc, rhs), acc)
ArithAddAssign(rhs) == ArithStep(Rotation_add_assign(acc, rhs), acc + rhs)
ArithSubAssign(rhs) == ArithStep(Rotation_sub_assign(acc, rhs), acc - rhs)
ArithNeg == ArithStep(Rotation_neg(acc), FULL_CIRCLE - acc)
ArithDistance(other) == ArithStep(Rotation_distance(acc, other), acc)
ArithRotateTowards(target, max_rotation) ==
    ArithStep(rotate_towards(acc, target, max_rotation), acc)

NextArith ==
    \/ \E raw \in RawInputs : ArithNew(raw)
    \/ \E c \in RotationConstants : ArithConstant(c)
    \/ \E rhs \in Operands : ArithAdd(rhs)
    \/ \E rhs \in Operands : ArithSub(rhs)
    \/ \E rhs \in Operands : ArithAddAssign(rhs)
    \/ \E rhs \in Operands : ArithSubAssign(rhs)
    \/ ArithNeg
    \/ \E other \in Operands : ArithDistance(other)
    \/ \E target \in Operands, raw \in RawInputs :
          ArithRotateTowards(target, Rotation_new(raw))

SpecArith == InitArith /\ [][NextArith]_vars

(***************************************************************************)
(* C1: every Rotation built by the public integer operations has           *)
(* deci_degrees in [0, 3600).                                              *)
(* It fails: -Rotation::NORTH is FULL_CIRCLE - 0 = 3600, stored as is.     *)
(***************************************************************************)
C1_RotationNormalized == acc >= 0 /\ acc < FULL_CIRCLE

(***************************************************************************)
(* Claims about the systems                                                *)
(***************************************************************************)
\* the PostUpdate stage has run both systems to the end
CycleComplete == stage = "PostUpdate" /\ done = Systems /\ running = "none"

\* sys has visited e in this cycle and no later system has touched e since
JustRan(sys, e) ==
    /\ last[sys][e].ran
    /\ \A other \in Systems : sys \in After(other) => ~last[other][e].ran

(***************************************************************************)
(* C2: an entity with Rotation, Direction and Transform; outside code      *)
(* assigns exactly one of Rotation, Direction (not NEUTRAL) or the         *)
(* Transform rotation (about z) to a settled entity; after one full cycle  *)
(* Direction = Direction::from(Rotation) and                               *)
(* Transform.rotation = Quat::from(Rotation).                              *)
(* It fails: from_xy reads the vector counter-clockwise from east while    *)
(* into_xy writes it clockwise from north, and From<Quat> for Direction    *)
(* reads the quaternion's vector part, which is (0, 0) for a z rotation.   *)
(***************************************************************************)
C2_ConsistentAfterOneEdit ==
    \A e \in entities :
        ( /\ CycleComplete
          /\ {"Rotation", "Direction"} \subseteq has[e]
          /\ edited[e] \in {{"Rotation"}, {"Direction"}, {"Transform.rotation:z"}} )
        => /\ ent[e].direction = Direction_from_Rotation(ent[e].rotation)
           /\ ent[e].quat = Quat_from_Rotation(ent[e].rotation)

(***************************************************************************)
(* C3: no infinite update cascade.  Once outside code stops assigning to   *)
(* an entity, the first two cycles may still propagate; from the third     *)
(* cycle on neither system assigns to any of its components.               *)
(***************************************************************************)
C3_NoCascade ==
    \A e \in entities :
        (CycleComplete /\ quiet[e] >= 2)
        => \A sys \in Systems : last[sys][e].written = {}

\* a third (or later) quiet cycle of an entity that both systems visit and that
\* earlier cycles have changed
C3_Witness ==
    /\ CycleComplete
    /\ quiet["e1"] >= 2
    /\ \A sys \in Systems : last[sys]["e1"].ran
    /\ ent["e1"].rotation # DefaultEntity.rotation
    /\ ent["e1"].quat # DefaultEntity.quat

\* the second quiet cycle can still write: the bound of C3 is tight
C3_SecondCycleWrites ==
    /\ CycleComplete
    /\ quiet["e1"] = 1
    /\ \E sys \in Systems : last[sys]["e1"].written # {}

(***************************************************************************)
(* C5: Phase A priority.  When Rotation is changed for                     *)
(* sync_direction_and_rotation (Direction changed or not), the system      *)
(* leaves Rotation as it was and makes Direction = Direction::from(        *)
(* Rotation); it assigns Rotation only when Rotation is not changed and    *)
(* Direction is.                                                           *)
(***************************************************************************)
C5_RotationPriority ==
    \A e \in entities :
        LET run == last["SyncDirectionRotation"][e]
        IN JustRan("SyncDirectionRotation", e)
           => /\ "Rotation" \in run.flags
                 => /\ ent[e].rotation = run.before.rotation
                    /\ ent[e].direction = Direction_from_Rotation(ent[e].rotation)
              /\ "Rotation" \in run.written
                 => "Rotation" \notin run.flags /\ "Direction" \in run.flags

\* both changed, Rotation 0 and a stale Direction (the normalised (1, 1)): the
\* system has replaced the Direction by (0, 1)
C5_Witness ==
    LET run == last["SyncDirectionRotation"]["e1"]
    IN /\ JustRan("SyncDirectionRotation", "e1")
       /\ {"Rotation", "Direction"} \subseteq run.flags
       /\ run.before.rotation = 0
       /\ run.before.direction = Direction_NORTHEAST
       /\ ent["e1"].direction = Direction_NORTH

(***************************************************************************)
(* C6: a conversion that fails with NearlySingularConversion leaves its    *)
(* destination as it was before the system ran: Rotation in Phase A        *)
(* (Direction degenerate and changed), Transform.rotation in Phase B       *)
(* (Direction degenerate and changed), Rotation in Phase B (the Transform  *)
(* rotation has no planar direction).                                      *)
(***************************************************************************)
\* sync_direction_and_rotation tried Rotation::try_from(direction) and it failed
FailedDirectionToRotation(e) ==
    LET run == last["SyncDirectionRotation"][e]
    IN /\ run.ran
       /\ "Rotation" \notin run.flags
       /\ "Direction" \in run.flags
       /\ ~IsOk(Rotation_try_from_Direction(run.before.direction))

\* sync_transform_with_2d tried Quat::try_from(direction) and it failed
FailedDirectionToQuat(e) ==
    LET run == last["SyncTransform"][e]
    IN /\ run.ran
       /\ "Direction" \in has[e]
       /\ "Direction" \in run.flags
       /\ ~IsOk(Quat_try_from_Direction(run.before.direction))

\* sync_transform_with_2d tried Rotation::try_from(transform.rotation) and it failed
FailedQuatToRotation(e) ==
    LET run == last["SyncTransform"][e]
    IN /\ run.ran
       /\ "Rotation" \in has[e]
       /\ "Rotation" \notin run.flags
       /\ "Transform" \in run.flags
       /\ ~IsOk(Rotation_try_from_Quat(run.before.quat))

C6_ErrorLeavesDestination ==
    \A e \in entities :
        /\ (JustRan("SyncDirectionRotation", e) /\ FailedDirectionToRotation(e))
           => ent[e].rotation = last["SyncDirectionRotation"][e].before.rotation
        /\ FailedDirectionToQuat(e)
           => ent[e].quat = last["SyncTransform"][e].before.quat
        /\ FailedQuatToRotation(e)
           => ent[e].rotation = last["SyncTransform"][e].before.rotation

\* all three failures have happened to one entity in one cycle, on values that are
\* not the defaults
C6_Witness ==
    /\ FailedDirectionToRotation("e1")
    /\ FailedDirectionToQuat("e1")
    /\ FailedQuatToRotation("e1")
    /\ ent["e1"].rotation # DefaultEntity.rotation
    /\ ent["e1"].quat # DefaultEntity.quat

(***************************************************************************)
(* C8: Phase B conflict priority.  For an entity with a Rotation, when     *)
(* Rotation and Transform are both changed, sync_transform_with_2d leaves  *)
(* Rotation as it was and makes Transform.rotation = Quat::from(Rotation); *)
(* when Position and Transform are both changed it leaves Position as it   *)
(* was and makes the translation's x, y equal to it.                       *)
(* It fails when the entity also has a Direction: the Direction block runs *)
(* after the Rotation block and overwrites Transform.rotation with the     *)
(* quaternion of Rotation::try_from(direction), which is not the Rotation  *)
(* (the axis mix-up of from_xy, C10).                                      *)
(***************************************************************************)
C8_ConflictPriority ==
    \A e \in entities :
        LET run == last["SyncTransform"][e]
        IN run.ran
           => /\ ("Rotation" \in has[e] /\ {"Rotation", "Transform"} \subseteq run.flags)
                 => /\ ent[e].rotation = run.before.rotation
                    /\ ent[e].quat = Quat_from_Rotation(ent[e].rotation)
              /\ ("Position" \in has[e] /\ {"Position", "Transform"} \subseteq run.flags)
                 => /\ ent[e].position = run.before.position
                    /\ ent[e].translation[1] = Coordinate_into_f32(ent[e].position[1])
                    /\ ent[e].translation[2] = Coordinate_into_f32(ent[e].position[2])

(***************************************************************************)
(* C9: sync_transform_with_2d never changes the z of the translation,      *)
(* whatever components the entity has and whatever is changed.             *)
(***************************************************************************)
C9_TranslationZUntouched ==
    \A e \in entities :
        last["SyncTransform"][e].ran
        => ent[e].translation[3] = last["SyncTransform"][e].before.translation[3]

\* the system has assigned the translation of an entity whose z is not 0
C9_Witness ==
    LET run == last["SyncTransform"]["e1"]
    IN /\ run.ran
       /\ "Transform.translation" \in run.written
       /\ run.before.translation[3] # 0
       /\ ent["e1"].translation # run.before.translation

(***************************************************************************)
(* Phase A run again and again with nothing in between                     *)
(***************************************************************************)
\* an entity with any of the input values and any combination of changed flags,
\* about to be visited by sync_direction_and_rotation
InitTwice ==
    /\ InitPure
    /\ entities = {"e1"}
    /\ has = [e \in Entities |-> IF e = "e1" THEN {"Rotation", "Direction"} ELSE {}]
    /\ \E r \in RotationInputs, d \in DirectionInputs :
          ent = [e \in Entities |->
                   IF e = "e1"
                   THEN [DefaultEntity EXCEPT !.rotation = r, !.direction = d]
                   ELSE DefaultEntity]
    /\ \E flags \in SUBSET {"Rotation", "Direction"} :
          changed = [sys \in Systems |->
                       [e \in Entities |-> IF e = "e1" THEN flags ELSE {}]]
    /\ stage = "PostUpdate"
    /\ running = "none"
    /\ done = {}
    /\ pending = {}
    /\ last = [sys \in Systems |-> [e \in Entities |-> NoRun]]
    /\ edited = [e \in Entities |-> {}]
    /\ quiet = [e \in Entities |-> 0]

\* the system is run once more, immediately: quiet counts the runs completed
RunAgain ==
    /\ stage = "PostUpdate"
    /\ running = "none"
    /\ done = {"SyncDirectionRotation"}
    /\ \A e \in entities : quiet[e] < MaxQuiet
    /\ done' = {}
    /\ quiet' = [e \in Entities |-> IF e \in entities THEN quiet[e] + 1 ELSE quiet[e]]
    /\ UNCHANGED <<pureVars, entities, has, ent, changed, stage, running, pending,
                   last, edited>>

NextTwice ==
    \/ StartSystem("SyncDirectionRotation")
    \/ \E e \in Entities : RunSyncDirectionRotation(e)
    \/ FinishSystem
    \/ RunAgain

SpecTwice == InitTwice /\ [][NextTwice]_vars

(***************************************************************************)
(* C4: Phase A is idempotent.  Whatever the entity's values and changed    *)
(* flags before a first run of sync_direction_and_rotation, a run that     *)
(* follows it with no outside assignment in between assigns nothing.       *)
(***************************************************************************)
C4_PhaseAIdempotent ==
    \A e \in entities :
        LET run == last["SyncDirectionRotation"][e]
        IN (quiet[e] >= 1 /\ run.ran /\ e \notin pending /\ running # "none")
           => run.written = {}

\* the second run has visited an entity whose Rotation the first run derived from
\* a changed Direction (900 is no input: only the first run can have stored it)
C4_Witness ==
    LET run == last["SyncDirectionRotation"]["e1"]
    IN /\ quiet["e1"] = 1
       /\ running = "SyncDirectionRotation"
       /\ pending = {}
       /\ run.ran
       /\ run.before.direction = Direction_NORTH
       /\ run.before.rotation = 900

(***************************************************************************)
(* Two entities: the order of the systems                                  *)
(***************************************************************************)
BarrierRotations == {1350}
BarrierDirections == {Direction_NORTHEAST}

InitBarrier ==
    /\ InitPure
    /\ InitWorld({"e1", "e2"}, {{"Rotation", "Direction"}})

NextBarrier ==
    \/ \E e \in Entities, r \in BarrierRotations : SetRotation(e, r)
    \/ \E e \in Entities, d \in BarrierDirections : SetDirection(e, d)
    \/ BeginPostUpdate
    \/ \E sys \in Systems : StartSystem(sys)
    \/ \E e \in Entities : RunSyncDirectionRotation(e)
    \/ \E e \in Entities : RunSyncTransform(e)
    \/ FinishSystem
    \/ EndPostUpdate

SpecBarrier == InitBarrier /\ [][NextBarrier]_vars

(***************************************************************************)
(* C7: phase barrier.  While sync_transform_with_2d runs,                  *)
(* sync_direction_and_rotation has finished for every entity of this       *)
(* cycle, and an entity Phase B has not visited yet still holds exactly    *)
(* what Phase A left in it.                                                *)
(***************************************************************************)
C7_PhaseBarrier ==
    running = "SyncTransform"
    => /\ "SyncDirectionRotation" \in done
       /\ \A e \in QueryOf("SyncDirectionRotation") :
             LET run == last["SyncDirectionRotation"][e]
             IN /\ run.ran
                /\ e \in pending
                   => ent[e] = sync_direction_and_rotation(run.before, run.flags).ent

\* Phase B has visited one entity and not yet the other, to which Phase A has
\* assigned in this cycle
C7_Witness ==
    /\ running = "SyncTransform"
    /\ pending = {"e2"}
    /\ last["SyncTransform"]["e1"].ran
    /\ last["SyncDirectionRotation"]["e2"].written # {}
    /\ quiet["e2"] = 0 /\ "Rotation" \in edited["e2"]

(***************************************************************************)
(* Conversion round trips                                                  *)
(***************************************************************************)
\* ROTATION_TOL of tests/orientation_conversions.rs: 5 tenths of a degree
ROTATION_TOL == 5

\* the eight compass directions
CompassDirections ==
    {Direction_NORTH, Direction_EAST, Direction_SOUTH, Direction_WEST,
     Direction_NORTHEAST, Direction_SOUTHEAST, Direction_SOUTHWEST,
     Direction_NORTHWEST}

\* each behaviour makes one conversion, of an input of its choice
InitConv ==
    /\ InitPure
    /\ InitWorld({"e1"}, {{"Rotation"}})

\* v -> Rotation::from_xy -> Rotation::into_xy
RoundTripVector(v) ==
    /\ conv = NoConversion
    /\ LET rotation == from_xy(v)
       IN conv' = [op |-> "Vec2", input |-> v, mid |-> rotation,
                   output |-> IF IsOk(rotation) THEN Ok(into_xy(Unwrap(rotation)))
                                                ELSE Err]
    /\ UNCHANGED <<acc, panicked, worldVars>>

\* r -> Direction::from -> Rotation::try_from
RoundTripRotation(r) ==
    /\ conv = NoConversion
    /\ LET direction == Direction_from_Rotation(r)
       IN conv' = [op |-> "Rotation", input |-> r, mid |-> Ok(direction),
                   output |-> Rotation_try_from_Direction(direction)]
    /\ UNCHANGED <<acc, panicked, worldVars>>

\* r -> Quat::from -> Rotation::try_from
RoundTripQuat(r) ==
    /\ conv = NoConversion
    /\ LET quat == Quat_from_Rotation(r)
       IN conv' = [op |-> "Quat", input |-> r, mid |-> Ok(quat),
                   output |-> Rotation_try_from_Quat(quat)]
    /\ UNCHANGED <<acc, panicked, worldVars>>

\* Rotation::try_from(direction)
DirectionToRotation(d) ==
    /\ conv = NoConversion
    /\ conv' = [op |-> "Direction->Rotation", input |-> d, mid |-> Ok(d),
                output |-> Rotation_try_from_Direction(d)]
    /\ UNCHANGED <<acc, panicked, worldVars>>

\* Quat::try_from(direction)
DirectionToQuat(d) ==
    /\ conv = NoConversion
    /\ conv' = [op |-> "Direction->Quat", input |-> d, mid |-> Ok(d),
                output |-> Quat_try_from_Direction(d)]
    /\ UNCHANGED <<acc, panicked, worldVars>>

\* a.distance(b) on Directions
DirectionDistance(a, b) ==
    /\ conv = NoConversion
    /\ conv' = [op |-> "Direction::distance", input |-> <<a, b>>, mid |-> Ok(a),
                output |-> Direction_distance(a, b)]
    /\ UNCHANGED <<acc, panicked, worldVars>>

\* Rotation::new(raw): it returns a Rotation, there is no error to return
RotationNew(raw) ==
    /\ conv = NoConversion
    /\ conv' = [op |-> "Rotation::new", input |-> raw, mid |-> Ok(raw),
                output |-> Ok(Rotation_new(raw))]
    /\ UNCHANGED <<acc, panicked, worldVars>>

NextConv ==
    \/ \E v \in CompassDirections \cup {Direction_NEUTRAL} : RoundTripVector(v)
    \/ \E r \in 0 .. (FULL_CIRCLE - 1) : RoundTripRotation(r)
    \/ \E r \in 0 .. (FULL_CIRCLE - 1) : RoundTripQuat(r)
    \/ \E d \in CompassDirections \cup {Direction_NEUTRAL} : DirectionToRotation(d)
    \/ \E d \in CompassDirections \cup {Direction_NEUTRAL} : DirectionToQuat(d)
    \/ \E a, b \in CompassDirections \cup {Direction_NEUTRAL} : DirectionDistance(a, b)
    \/ \E raw \in RawInputs : RotationNew(raw)

SpecConv == InitConv /\ [][NextConv]_vars

\* the angle between two non-zero vectors is at most `tol` tenths of a degree:
\* |v x w| <= sin(tol) |v| |w| and v . w > 0
WithinAngle(v, w, tol) ==
    LET cross == v[1] * w[2] - v[2] * w[1]
        dot == v[1] * w[1] + v[2] * w[2]
        lens == FMul(Sqrt(length_squared(v)), Sqrt(length_squared(w)))
    IN dot > 0 /\ Abs(cross) <= Sin(into_radians(tol)) * lens

(***************************************************************************)
(* C10: vector / angle round trip.  A compass direction v converted by     *)
(* Rotation::from_xy and back by Rotation::into_xy points within a few     *)
(* tenths of a degree of v; a Rotation r converted to a Direction and back *)
(* is Ok of a value within a few tenths of a degree of r.                  *)
(* It fails: from_xy takes atan2(y, x), the angle counter-clockwise from   *)
(* east, and into_xy writes (sin, cos), the angle clockwise from north, so *)
(* the round trip mirrors the heading about the north-east diagonal.       *)
(***************************************************************************)
C10_RoundTrip ==
    /\ (conv.op = "Vec2" /\ conv.input # Direction_NEUTRAL)
       => /\ IsOk(conv.output)
          /\ WithinAngle(conv.input, Unwrap(conv.output), ROTATION_TOL)
    /\ conv.op = "Rotation"
       => /\ IsOk(conv.output)
          /\ Rotation_distance(conv.input, Unwrap(conv.output)) <= ROTATION_TOL

(***************************************************************************)
(* Partitioning, src/src/orientation.rs mod partitioning                   *)
(***************************************************************************)
\* (normalized_degrees * 10.0) as u16, degrees in fixed-point units
from_degrees(degrees) ==
    LET normalized_degrees == RemEuclid(degrees, 360 * ONE)
    IN (normalized_degrees * 10) \div ONE

\* the types implementing DirectionParitioning
Schemes ==
    {"CardinalQuadrant", "OffsetQuadrant", "CardinalOctant", "CardinalSextant",
     "OffsetSextant"}

\* Self::partitions(), in the order of the vec![..]
partitions(scheme) ==
    CASE scheme = "CardinalQuadrant" -> <<"North", "East", "South", "West">>
      [] scheme = "OffsetQuadrant" ->
            <<"NorthEast", "SouthEast", "SouthWest", "NorthWest">>
      [] scheme = "CardinalOctant" ->
            <<"North", "NorthEast", "East", "SouthEast", "South", "SouthWest",
              "West", "NorthWest">>
      [] scheme = "CardinalSextant" ->
            <<"North", "NorthEast", "SouthEast", "South", "SouthWest", "NorthWest">>
      [] scheme = "OffsetSextant" ->
            <<"NorthEast", "East", "SouthEast", "SouthWest", "West", "NorthWest">>

\* the degrees in the match arms of impl From<scheme> for Rotation
PartitionDegrees(scheme, partition) ==
    CASE scheme \in {"CardinalQuadrant", "OffsetQuadrant", "CardinalOctant"} ->
            ( CASE partition = "North" -> 0
                [] partition = "NorthEast" -> 45
                [] partition = "East" -> 90
                [] partition = "SouthEast" -> 135
                [] partition = "South" -> 180
                [] partition = "SouthWest" -> 225
                [] partition = "West" -> 270
                [] partition = "NorthWest" -> 315 )
      [] scheme = "CardinalSextant" ->
            ( CASE partition = "North" -> 0
                [] partition = "NorthEast" -> 60
                [] partition = "SouthEast" -> 120
                [] partition = "South" -> 180
                [] partition = "SouthWest" -> 240
                [] partition = "NorthWest" -> 300 )
      [] scheme = "OffsetSextant" ->
            ( CASE partition = "NorthEast" -> 30
                [] partition = "East" -> 90
                [] partition = "SouthEast" -> 150
                [] partition = "SouthWest" -> 210
                [] partition = "West" -> 270
                [] partition = "NorthWest" -> 330 )

\* impl From<scheme> for Rotation
Rotation_from_Partition(scheme, partition) ==
    from_degrees(PartitionDegrees(scheme, partition) * ONE)

\* impl From<scheme> for Direction
Direction_from_Partition(scheme, partition) ==
    Direction_from_Rotation(Rotation_from_Partition(scheme, partition))

\* impl From<scheme> for Vec2
Vec2_from_Partition(scheme, partition) ==
    into_xy(Rotation_from_Partition(scheme, partition))

\* Iterator::reduce with the closure of snap: the accumulator is kept only when
\* its distance is strictly smaller
RECURSIVE SnapReduce(_, _, _)
SnapReduce(pairs, i, accumulator) ==
    IF i > Len(pairs) THEN accumulator
    ELSE SnapReduce(pairs, i + 1,
                    IF accumulator[2] < pairs[i][2] THEN accumulator ELSE pairs[i])

\* snap with a closure that never keeps the accumulator: the last member wins
snap_KeepsLast(scheme, rotation) ==
    LET parts == partitions(scheme)
    IN parts[Len(parts)]

\* DirectionParitioning::snap
snap(scheme, rotation) ==
    LET parts == partitions(scheme)
        pairs == [i \in 1 .. Len(parts) |->
                    <<parts[i],
                      Rotation_distance(rotation,
                                        Rotation_from_Partition(scheme, parts[i]))>>]
    IN SnapReduce(pairs, 2, pairs[1])[1]

\* DirectionParitioning::snap_rotation
snap_rotation(scheme, rotation) ==
    Rotation_from_Partition(scheme, snap(scheme, rotation))

\* snap_direction without the special case: a NEUTRAL direction is snapped as
\* Rotation::default() is
snap_direction_NoSpecialCase(scheme, direction) ==
    LET rotation == Rotation_try_from_Direction(direction)
    IN Direction_from_Rotation(
           snap_rotation(scheme, IF IsOk(rotation) THEN Unwrap(rotation) ELSE 0))

\* DirectionParitioning::snap_direction
snap_direction(scheme, direction) ==
    LET rotation == Rotation_try_from_Direction(direction)
    IN IF IsOk(rotation)
       THEN Direction_from_Rotation(snap_rotation(scheme, Unwrap(rotation)))
       ELSE Direction_NEUTRAL

\* DirectionParitioning::snap_vec2 (Rotation::try_from(vec2) is from_xy, and
\* Vec2::from(rotation) is into_xy)
snap_vec2(scheme, vec2) ==
    LET rotation == from_xy(vec2)
    IN IF IsOk(rotation)
       THEN into_xy(snap_rotation(scheme, Unwrap(rotation)))
       ELSE <<0, 0>>

\* impl Mul<f32> for Direction: the vector of that magnitude
Scaled(direction, magnitude) == <<magnitude * direction[1], magnitude * direction[2]>>

\* vectors are a heading times a whole magnitude up to this
MaxMagnitude == 2
\* the headings snapped as directions and vectors: every 5 degrees
Headings == {r \in 0 .. (FULL_CIRCLE - 1) : r % 50 = 0}

Snap(scheme, r) ==
    /\ conv = NoConversion
    /\ conv' = [op |-> "snap", input |-> <<scheme, r>>, mid |-> Ok(r),
                output |-> snap(scheme, r)]
    /\ UNCHANGED <<acc, panicked, worldVars>>

SnapDirection(scheme, d) ==
    /\ conv = NoConversion
    /\ conv' = [op |-> "snap_direction", input |-> <<scheme, d>>,
                mid |-> Rotation_try_from_Direction(d),
                output |-> snap_direction(scheme, d)]
    /\ UNCHANGED <<acc, panicked, worldVars>>

\* the vector of heading r and the given magnitude is snapped
SnapVec2(scheme, r, magnitude) ==
    /\ conv = NoConversion
    /\ LET vec2 == Scaled(Direction_from_Rotation(r), magnitude)
       IN conv' = [op |-> "snap_vec2", input |-> <<scheme, r, magnitude, vec2>>,
                   mid |-> from_xy(vec2),
                   output |-> snap_vec2(scheme, vec2)]
    /\ UNCHANGED <<acc, panicked, worldVars>>

NextSnap ==
    \/ \E scheme \in Schemes, r \in 0 .. (FULL_CIRCLE - 1) : Snap(scheme, r)
    \/ \E scheme \in Schemes,
          d \in {Direction_NEUTRAL} \cup {Direction_from_Rotation(r) : r \in Headings} :
          SnapDirection(scheme, d)
    \/ \E scheme \in Schemes, r \in Headings, magnitude \in 0 .. MaxMagnitude :
          SnapVec2(scheme, r, magnitude)

SpecSnap == InitConv /\ [][NextSnap]_vars

\* the positions of partitions(scheme) at the least distance from the rotation
Nearest(scheme, rotation) ==
    LET parts == partitions(scheme)
        d(i) == Rotation_distance(rotation, Rotation_from_Partition(scheme, parts[i]))
    IN {i \in 1 .. Len(parts) : \A j \in 1 .. Len(parts) : d(i) <= d(j)}

(***************************************************************************)
(* C13: snap tie-break.  For every scheme and query Rotation, when several *)
(* members of partitions() are at the same least distance from the query,  *)
(* snap returns the one that comes first in partitions().                  *)
(* It fails: the closure of reduce keeps the accumulator only on           *)
(* distance_1 < distance_2, so on a tie the later member replaces it.      *)
(***************************************************************************)
C13_SnapTieBreak ==
    conv.op = "snap"
    => LET scheme == conv.input[1]
           nearest == Nearest(scheme, conv.input[2])
           first == CHOOSE i \in nearest : \A j \in nearest : i <= j
       IN conv.output = partitions(scheme)[first]

(***************************************************************************)
(* C14: snapping degenerate input gives the neutral result.  For every     *)
(* scheme snap_direction(Direction::NEUTRAL) = Direction::NEUTRAL and      *)
(* snap_vec2(zero) = zero; every other input gives the Direction / vector  *)
(* of a member of partitions().                                            *)
(***************************************************************************)
C14_SnapDegenerate ==
    LET scheme == conv.input[1]
        members == {partitions(scheme)[i] : i \in 1 .. Len(partitions(scheme))}
    IN /\ conv.op = "snap_direction"
          => IF conv.input[2] = Direction_NEUTRAL
             THEN conv.output = Direction_NEUTRAL
             ELSE conv.output \in {Direction_from_Partition(scheme, m) : m \in members}
       /\ conv.op = "snap_vec2"
          => IF conv.input[4] = <<0, 0>>
             THEN conv.output = <<0, 0>>
             ELSE conv.output \in {Vec2_from_Partition(scheme, m) : m \in members}

\* the NEUTRAL direction has been snapped: its conversion failed
C14_Witness ==
    /\ conv.op = "snap_direction"
    /\ conv.input = <<"CardinalOctant", Direction_NEUTRAL>>
    /\ conv.mid = Err
    /\ conv.output = Direction_NEUTRAL

(***************************************************************************)
(* C15: snap_vec2 preserves the magnitude.  For a vector of heading r and  *)
(* magnitude m > 0, snap_vec2 returns the vector of magnitude m along the  *)
(* partition member nearest to r.                                          *)
(* It fails: snap_vec2 returns Vec2::from(rotation), a unit vector, and    *)
(* the heading it snaps is the one from_xy reads, mirrored about the       *)
(* north-east diagonal.                                                    *)
(***************************************************************************)
C15_SnapVec2Magnitude ==
    (conv.op = "snap_vec2" /\ conv.input[3] > 0)
    => LET scheme == conv.input[1]
       IN conv.output =
             Scaled(Vec2_from_Partition(scheme, snap(scheme, conv.input[2])),
                    conv.input[3])

(***************************************************************************)
(* The methods of Rotation, each applied once to sampled Rotations         *)
(***************************************************************************)
\* every 10 degrees, the values next to the circle's seams, the operands of the
\* documented example, and -Rotation::NORTH, the one value Neg stores unnormalized
RotationSamples ==
    {r \in 0 .. (FULL_CIRCLE - 1) : r % 100 = 0}
        \cup {1, 10, 350, 1799, 1801, 3599, Rotation_neg(0)}
\* the max_rotation arguments of rotate_towards
StepSamples == {0, 1, 100, 900, 1799, 1800, 1801, 3599}

ApplyDistance(a, b) ==
    /\ conv = NoConversion
    /\ conv' = [op |-> "distance", input |-> <<a, b>>,
                mid |-> Rotation_distance(b, a),
                output |-> Rotation_distance(a, b)]
    /\ UNCHANGED <<acc, panicked, worldVars>>

ApplyRotationDirection(self, target) ==
    /\ conv = NoConversion
    /\ conv' = [op |-> "rotation_direction", input |-> <<self, target>>,
                mid |-> Rotation_distance(self, target),
                output |-> rotation_direction(self, target)]
    /\ UNCHANGED <<acc, panicked, worldVars>>

ApplyRotateTowards(cur, target, step) ==
    /\ conv = NoConversion
    /\ conv' = [op |-> "rotate_towards", input |-> <<cur, target, step>>,
                mid |-> Rotation_distance(cur, target),
                output |-> rotate_towards(cur, target, step)]
    /\ UNCHANGED <<acc, panicked, worldVars>>

\* what a u16 computation with the intermediates `wides` comes to: the (wrapped)
\* result, or, when an intermediate leaves the u16 range, also the panic of a
\* build with overflow checks
Panic == <<"Panic", "arithmetic overflow">>
U16Outcomes(result, wides) ==
    {Ok(result)} \cup (IF \E w \in wides : OverflowsU16(w) THEN {Panic} ELSE {})

\* the u16 intermediates of self - rhs (impl Sub) and of self -= rhs
SubIntermediates(self, rhs) ==
    IF self >= rhs THEN {self - rhs}
    ELSE {self + FULL_CIRCLE, self + FULL_CIRCLE - rhs}
SubAssignIntermediates(self, rhs) == {self - rhs}

\* one arithmetic operator applied to a and b
ApplyOperator(op, a, b, result, wides) ==
    /\ conv = NoConversion
    /\ \E outcome \in U16Outcomes(result, wides) :
          conv' = [op |-> op, input |-> <<a, b>>, mid |-> wides, output |-> outcome]
    /\ UNCHANGED <<acc, panicked, worldVars>>

ApplyAdd(a, b) == ApplyOperator("add", a, b, Rotation_add(a, b), {a + b})
ApplySub(a, b) ==
    ApplyOperator("sub", a, b, Rotation_sub(a, b), SubIntermediates(a, b))
ApplyAddAssign(a, b) ==
    ApplyOperator("add_assign", a, b, Rotation_add_assign(a, b), {a + b})
ApplySubAssign(a, b) ==
    ApplyOperator("sub_assign", a, b, Rotation_sub_assign(a, b),
                  SubAssignIntermediates(a, b))

NextOps ==
    \/ \E a, b \in RotationSamples : ApplyAdd(a, b)
    \/ \E a, b \in RotationSamples : ApplySub(a, b)
    \/ \E a, b \in RotationSamples : ApplyAddAssign(a, b)
    \/ \E a, b \in RotationSamples : ApplySubAssign(a, b)
    \/ \E a, b \in RotationSamples : ApplyDistance(a, b)
    \/ \E self, target \in RotationSamples : ApplyRotationDirection(self, target)
    \/ \E cur, target \in RotationSamples, step \in StepSamples :
          ApplyRotateTowards(cur, target, step)

SpecOps == InitConv /\ [][NextOps]_vars

(***************************************************************************)
(* C16: rotation_direction gives the direction of the shortest rotation.   *)
(* For all Rotations self and target, turning self in the returned         *)
(* direction (Clockwise adds, CounterClockwise subtracts) reaches target   *)
(* within 1800 tenths of a degree.                                         *)
(* It fails: the method looks only at |self - target|, not at which of the *)
(* two is larger, so from 0 to 100 it answers CounterClockwise, the long   *)
(* way round.                                                              *)
(***************************************************************************)
C16_ShortestDirection ==
    conv.op = "rotation_direction"
    => LET self == conv.input[1]
           target == conv.input[2]
           arc == IF conv.output = "Clockwise"
                  THEN (target - self) % FULL_CIRCLE
                  ELSE (self - target) % FULL_CIRCLE
       IN arc <= FULL_CIRCLE \div 2

C18_NoOvershoot ==
    conv.op = "rotate_towards"
    => LET cur == conv.input[1]
           target == conv.input[2]
           step == conv.input[3]
       IN IF Abs(cur - target) <= step
          THEN conv.output = target
          ELSE IF Abs(cur - target) > 1800
          THEN conv.output = (cur + step) % FULL_CIRCLE
          ELSE conv.output = (cur - step) % FULL_CIRCLE

\* a target exactly one step above the current value has been reached
C18_Witness ==
    /\ conv.op = "rotate_towards"
    /\ conv.input = <<100, 200, 100>>
    /\ conv.output = 200

(***************************************************************************)
(* C19: Rotation::distance is the plain absolute difference of the stored  *)
(* values, not the shortest arc: distance(a, b) = distance(b, a) = |a - b|,*)
(* which can exceed 1800 (distance(new(10), new(350)) = 340), and it is 0  *)
(* exactly when a = b.                                                     *)
(***************************************************************************)
C19_DistanceAbsolute ==
    conv.op = "distance"
    => LET a == conv.input[1]
           b == conv.input[2]
       IN /\ conv.output = conv.mid
          /\ conv.output = Abs(a - b)
          /\ conv.output = 0 <=> a = b
          /\ (a = 10 /\ b = 350) => conv.output = 340

\* a distance above the half circle has been computed
C19_Witness ==
    /\ conv.op = "distance"
    /\ conv.input = <<100, 3500>>
    /\ conv.output = 3400

(***************************************************************************)
(* C20: full-circle wraparound.  Rotation::new(3600) = Rotation::default(),*)
(* Rotation::new(k * 3600 + r) = Rotation::new(r) for every 16-bit input,  *)
(* and for every reachable Rotation a, a + Rotation::new(3600) = a and     *)
(* a - Rotation::new(3600) = a.                                            *)
(* It fails for a = -Rotation::NORTH, which Neg stores as 3600: adding or  *)
(* subtracting the full circle goes through Rotation::new and gives 0,     *)
(* which is not equal to the stored 3600.                                  *)
(***************************************************************************)
C20_FullCircleWraparound ==
    /\ Rotation_new(FULL_CIRCLE) = DefaultEntity.rotation
    /\ \A raw \in RawInputs :
          Rotation_new(raw) = Rotation_new(raw - FULL_CIRCLE * (raw \div FULL_CIRCLE))
    /\ Rotation_add(acc, Rotation_new(FULL_CIRCLE)) = acc
    /\ Rotation_sub(acc, Rotation_new(FULL_CIRCLE)) = acc

(***************************************************************************)
(* C11: quaternion round trip.  For every Rotation r,                      *)
(* Rotation::try_from(Quat::from(r)) is Ok of a Rotation at distance at    *)
(* most 5 tenths of a degree from r; the z rotation by 0 gives             *)
(* Ok(Rotation::NORTH).                                                    *)
(* It fails: From<Quat> for Direction normalizes the x and y of the        *)
(* quaternion's vector part, and a rotation about z has x = y = 0, so the  *)
(* Direction is NEUTRAL and the conversion is the error.                   *)
(***************************************************************************)
C11_QuatRoundTrip ==
    conv.op = "Quat"
    => /\ IsOk(conv.output)
       /\ Rotation_distance(conv.input, Unwrap(conv.output)) <= ROTATION_TOL
       /\ conv.input = 0 => conv.output = Ok(0)

(***************************************************************************)
(* C12: degenerate input is an error value.  Rotation::from_xy of the zero *)
(* vector, Rotation::try_from and Quat::try_from of Direction::NEUTRAL and *)
(* Direction::distance with a NEUTRAL operand return                       *)
(* Err(NearlySingularConversion); Rotation::new returns a Rotation for     *)
(* every raw input.                                                        *)
(***************************************************************************)
C12_DegenerateIsError ==
    /\ (conv.op = "Vec2" /\ conv.input = <<0, 0>>)
       => conv.mid = Err
    /\ (conv.op \in {"Direction->Rotation", "Direction->Quat"}
          /\ conv.input = Direction_NEUTRAL)
       => conv.output = Err
    /\ (conv.op = "Direction::distance" /\ Direction_NEUTRAL \in
                                             {conv.input[1], conv.input[2]})
       => conv.output = Err
    /\ conv.op = "Rotation::new"
       => IsOk(conv.output) /\ Unwrap(conv.output) \in 0 .. (FULL_CIRCLE - 1)

\* the distance from NORTH to NEUTRAL has been asked for
C12_Witness ==
    /\ conv.op = "Direction::distance"
    /\ conv.input = <<Direction_NORTH, Direction_NEUTRAL>>
    /\ conv.output = Err

(***************************************************************************)
(* C21: subtraction never underflows and is the same in both forms.  For   *)
(* normalized Rotations a and b, a - b and a -= b both give                *)
(* (a - b) mod 3600 and every u16 intermediate stays in range (no wrap, no *)
(* overflow panic); a += b agrees with a + b.                              *)
(* It fails: sub_assign computes (self - rhs) % FULL_CIRCLE directly, so   *)
(* with self < rhs the u16 subtraction overflows: a panic with overflow    *)
(* checks, and otherwise (65536 + a - b) mod 3600, which is 736 off.       *)
(***************************************************************************)
C21_SubtractionNoUnderflow ==
    LET a == conv.input[1]
        b == conv.input[2]
    IN (conv.op \in {"add", "sub", "add_assign", "sub_assign"}
          /\ a < FULL_CIRCLE /\ b < FULL_CIRCLE)
       => /\ \A w \in conv.mid : ~OverflowsU16(w)
          /\ conv.op \in {"sub", "sub_assign"}
             => conv.output = Ok((a - b) % FULL_CIRCLE)
          /\ conv.op \in {"add", "add_assign"}
             => conv.output = Ok((a + b) % FULL_CIRCLE)

(***************************************************************************)
(* C22: snap returns a nearest member under Rotation::distance.  For each  *)
(* scheme and every query Rotation q the member m returned satisfies       *)
(* distance(q, m) <= distance(q, p) for every p of partitions(); so a      *)
(* member's own Rotation snaps to that member, and snap_rotation is        *)
(* idempotent.                                                             *)
(***************************************************************************)
C22_SnapNearest ==
    conv.op = "snap"
    => LET scheme == conv.input[1]
           q == conv.input[2]
           parts == partitions(scheme)
           m == conv.output
       IN /\ \E i \in 1 .. Len(parts) : parts[i] = m
          /\ \A i \in 1 .. Len(parts) :
                Abs(q - Rotation_from_Partition(scheme, m))
                   <= Abs(q - Rotation_from_Partition(scheme, parts[i]))
          /\ \A i \in 1 .. Len(parts) :
                q = Rotation_from_Partition(scheme, parts[i]) => m = parts[i]
          /\ snap_rotation(scheme, Rotation_from_Partition(scheme, m))
                = Rotation_from_Partition(scheme, m)

\* a query off every member has been snapped to the member next to it
C22_Witness ==
    /\ conv.op = "snap"
    /\ conv.input = <<"CardinalSextant", 700>>
    /\ conv.output = "NorthEast"

(***************************************************************************)
(* rotate_towards called again and again with the same arguments           *)
(***************************************************************************)
TowardsStarts == {0, 100, 1800, 1900, 3500, 3599}
TowardsTargets == {0, 100, 1800, 3500}
TowardsSteps == {1, 10, 100, 1000, 3599}

\* a value initialised to start; conv holds the arguments of the calls to come
InitTowards ==
    /\ acc \in TowardsStarts
    /\ panicked = FALSE
    /\ \E target \in TowardsTargets, max_rotation \in TowardsSteps :
          conv = [op |-> "rotate_towards", target |-> target,
                  max_rotation |-> max_rotation]
    /\ InitWorld({"e1"}, {{"Rotation"}})

\* value.rotate_towards(target, max_rotation)
RotateTowardsAgain ==
    /\ acc' = rotate_towards(acc, conv.target, conv.max_rotation)
    /\ UNCHANGED <<panicked, conv, worldVars>>

NextTowards == RotateTowardsAgain

\* the caller keeps calling: a call that would change the value is made in the end
SpecTowards == InitTowards /\ [][NextTowards]_vars /\ WF_vars(NextTowards)

(***************************************************************************)
(* C23: rotate_towards converges.  For all Rotations start and target and  *)
(* every max_rotation > 0, repeated calls of rotate_towards(target,        *)
(* max_rotation) on a value initialised to start make it equal to target   *)
(* in the end, and it stays there.                                         *)
(* It fails: from 0 towards 100 by steps of 10 rotation_direction answers  *)
(* CounterClockwise (C16), the value goes to 3590, from there the answer   *)
(* is Clockwise, the value is 0 again, and so on for ever.                 *)
(***************************************************************************)
C23_RotateTowardsConverges == <>[](acc = conv.target)

=============================================================================
